---- MODULE Spec2Model ----
(***************************************************************************)
(* A state-machine model of app.py, the Streamlit wellness application:    *)
(*   - the "AI Chatbot" page's Send handler (crisis-keyword check, the     *)
(*     fixed banner and helplines, the text-generation call, the history), *)
(*   - the "Well-being Toolkit" page's one-minute breathing loop,          *)
(*   - the SQLite mood and journal logs.                                   *)
(* Text is a sequence of one-character strings.  Clock readings are whole  *)
(* seconds.                                                                *)
(***************************************************************************)
EXTENDS Integers, Sequences, FiniteSets, TLC

VARIABLES
    \* ---- AI Chatbot page
    user_input,     \* the text area's content on the last Send
    chat_history,   \* st.session_state.chat_history: <<speaker, text>> pairs
    shown,          \* what the Send branch rendered on the last run, in order
    cpc,            \* "idle" | "generating" (inside the spinner, before the model call)
    \* ---- Well-being Toolkit page, breathing exercise
    now,            \* the wall clock, time.time() / datetime.utcnow(), in seconds
    t0,             \* the session's start timestamp
    i,              \* the loop's sample counter
    elapsed,        \* the sample's own clock read minus t0
    pct,            \* the last value passed to st.progress / prog.progress
    prog,           \* the progress bar's displayed value
    phase,          \* the sample's phase index
    status,         \* the status placeholder's content
    bpc,            \* "idle" | "loop" | "body" | "sleep" | "done" | "error"
    skews,          \* how many times the wall clock was set back
    \* ---- SQLite store
    moods,          \* table moods: a set of rows [id, mood, note, ts]
    journals,       \* table journals: a set of rows [id, title, entry, ts]
    mood_seq,       \* sqlite_sequence of moods (AUTOINCREMENT)
    journal_seq,    \* sqlite_sequence of journals
    rows,           \* the last query's result
    saved           \* the save calls made so far, oldest first

chatVars  == <<user_input, chat_history, shown, cpc>>
timerVars == <<t0, i, elapsed, pct, prog, phase, status, bpc, skews>>
storeVars == <<moods, journals, mood_seq, journal_seq, rows, saved>>
vars == <<user_input, chat_history, shown, cpc,
          now, t0, i, elapsed, pct, prog, phase, status, bpc, skews,
          moods, journals, mood_seq, journal_seq, rows, saved>>

-----------------------------------------------------------------------------
(* Text helpers: Python's str methods on sequences of characters.          *)

UpperLetters ==
    <<"A","B","C","D","E","F","G","H","I","J","K","L","M",
      "N","O","P","Q","R","S","T","U","V","W","X","Y","Z">>
LowerLetters ==
    <<"a","b","c","d","e","f","g","h","i","j","k","l","m",
      "n","o","p","q","r","s","t","u","v","w","x","y","z">>

\* (mutant: no case folding)
LowerCharId(c) == c
\* str.lower() on one character: an upper-case letter maps to its lower-case
\* letter, every other character to itself.
LowerChar(c) ==
    IF \E j \in DOMAIN UpperLetters : UpperLetters[j] = c
    THEN LowerLetters[CHOOSE j \in DOMAIN UpperLetters : UpperLetters[j] = c]
    ELSE c

\* user_input.lower()
Lower(s) == [j \in DOMAIN s |-> LowerChar(s[j])]

\* str.isspace() on one character
IsSpace(c) == c \in {" ", "\n", "\t"}

\* s.strip(): leading and trailing whitespace removed
Strip(s) ==
    IF \A j \in DOMAIN s : IsSpace(s[j]) THEN <<>>
    ELSE LET first == CHOOSE a \in DOMAIN s :
                        /\ ~IsSpace(s[a])
                        /\ \A b \in 1..(a - 1) : IsSpace(s[b])
             last  == CHOOSE a \in DOMAIN s :
                        /\ ~IsSpace(s[a])
                        /\ \A b \in (a + 1)..Len(s) : IsSpace(s[b])
         IN  SubSeq(s, first, last)

\* (mutant: a match must stand between whitespace or the ends of s)
ContainsWord(k, s) ==
    \E a \in 0..(Len(s) - Len(k)) :
        /\ SubSeq(s, a + 1, a + Len(k)) = k
        /\ (a = 0 \/ IsSpace(s[a]))
        /\ (a + Len(k) = Len(s) \/ IsSpace(s[a + Len(k) + 1]))
\* k in s: k is a contiguous slice of s
Contains(k, s) ==
    \E a \in 0..(Len(s) - Len(k)) : SubSeq(s, a + 1, a + Len(k)) = k

-----------------------------------------------------------------------------
(* Crisis keywords and helplines.                                          *)

CRISIS_KEYWORDS ==
    << <<"s","u","i","c","i","d","e">>,
       <<"k","i","l","l"," ","m","y","s","e","l","f">>,
       <<"w","a","n","t"," ","t","o"," ","d","i","e">>,
       <<"d","i","e">>,
       <<"h","o","p","e","l","e","s","s">>,
       <<"w","o","r","t","h","l","e","s","s">>,
       <<"e","n","d"," ","m","y"," ","l","i","f","e">> >>

\* dict HELPLINES in insertion order
HELPLINES ==
    << <<"India (NIMHANS)", "080-4611-0007">>,
       <<"iCall India", "+91 9152987821">>,
       <<"US (988)", "988">>,
       <<"International (if available)",
         "Contact local emergency services / national lifeline">> >>

\* The keywords as single strings, in the list's order (for rendering a
\* keyword on a line).
KeywordNames ==
    <<"suicide", "kill myself", "want to die", "die", "hopeless", "worthless",
      "end my life">>

\* any(k in low for k in CRISIS_KEYWORDS)
AnyKeyword(low) ==
    \E j \in DOMAIN CRISIS_KEYWORDS : Contains(CRISIS_KEYWORDS[j], low)

\* (mutant: the loop over HELPLINES stops one entry early)
CrisisLinesShort ==
    <<[call |-> "error",
       text |-> <<"It looks like you may be in crisis or feeling unsafe. Please reach out to a helpline or trusted person immediately.">>]>>
    \o [j \in 1..(Len(HELPLINES) - 1) |->
          [call |-> "write",
           text |-> <<HELPLINES[j][1], "** -- ", HELPLINES[j][2]>>]]
    \o <<[call |-> "write",
          text |-> <<"If you are in immediate danger, contact emergency services in your country.">>]>>
\* The rendering of the crisis branch: st.error, one st.write per helpline
\* (the f-string's parts: name, "** -- ", number), then a last st.write.
\* Texts are written in ASCII: the banner's leading warning sign is left out
\* and the long dash is written "--".
CrisisLines ==
    <<[call |-> "error",
       text |-> <<"It looks like you may be in crisis or feeling unsafe. Please reach out to a helpline or trusted person immediately.">>]>>
    \o [j \in DOMAIN HELPLINES |->
          [call |-> "write",
           text |-> <<HELPLINES[j][1], "** -- ", HELPLINES[j][2]>>]]
    \o <<[call |-> "write",
          text |-> <<"If you are in immediate danger, contact emergency services in your country.">>]>>

BlankWarning ==
    <<[call |-> "warning", text |-> <<"Please type something before sending.">>]>>

-----------------------------------------------------------------------------
(* The AI Chatbot page.                                                    *)

MaxTurns == 1

Prefixes == { <<>>, <<" ">>, <<"I"," ">> }
Words ==
    { <<>>,
      <<"S","U","I","C","I","D","E">>,
      <<"K","i","l","l"," ","M","y","s","e","l","f">>,
      <<"w","a","n","t"," ","t","o"," ","D","I","E">>,
      <<"d","i","e">>,
      <<"D","i","E">>,
      <<"H","O","P","E","L","E","S","S">>,
      <<"W","o","r","t","h","l","e","s","s">>,
      <<"E","n","d"," ","M","y"," ","L","i","f","e">>,
      <<"d","i"," ","e">>,
      <<"o","k">>,
      <<"\n">> }
Suffixes == { <<>>, <<"t">>, <<"d","i","e","s","e","l">> }

\* The texts a user types in this model: prefix, word, suffix.
Messages == { p \o w \o s : p \in Prefixes, w \in Words, s \in Suffixes }

Continuations == { <<>>, <<" ","o","k","\n">> }

\* result[0]["generated_text"] of the text-generation pipeline for a prompt:
\* the prompt followed by a continuation (possibly empty).
Generations(prompt) == { prompt \o c : c \in Continuations }

\* reply = gen[len(user_input):].strip(); if not reply: reply = gen
ExtractReply(gen, prompt) ==
    LET tail == Strip(SubSeq(gen, Len(prompt) + 1, Len(gen)))
    IN  IF tail = <<>> THEN gen ELSE tail

\* (mutant: the reply is generated only when the message is not flagged)
SendElse(msg) ==
    /\ cpc = "idle"
    /\ Len(chat_history) < 2 * MaxTurns
    /\ user_input' = msg
    /\ IF Strip(msg) = <<>>
       THEN /\ shown' = BlankWarning
            /\ cpc' = "idle"
       ELSE IF AnyKeyword(Lower(msg))
            THEN /\ shown' = CrisisLines
                 /\ cpc' = "idle"
            ELSE /\ shown' = <<>>
                 /\ cpc' = "generating"
    /\ UNCHANGED chat_history
    /\ UNCHANGED <<now, timerVars, storeVars>>

\* (mutant: the crisis branch also writes the keywords it found)
SendListingTerms(msg) ==
    /\ cpc = "idle"
    /\ Len(chat_history) < 2 * MaxTurns
    /\ user_input' = msg
    /\ IF Strip(msg) = <<>>
       THEN /\ shown' = BlankWarning
            /\ cpc' = "idle"
       ELSE /\ shown' = IF AnyKeyword(Lower(msg))
                        THEN CrisisLines \o
                             <<[call |-> "write",
                                text |-> SelectSeq(KeywordNames, LAMBDA t :
                                    \E j \in DOMAIN CRISIS_KEYWORDS :
                                        /\ KeywordNames[j] = t
                                        /\ Contains(CRISIS_KEYWORDS[j], Lower(msg)))]>>
                        ELSE <<>>
            /\ cpc' = "generating"
    /\ UNCHANGED chat_history
    /\ UNCHANGED <<now, timerVars, storeVars>>

\* "Send" clicked with the text area holding msg: the blank test, then the
\* crisis check and its rendering, up to the text-generation call.
Send(msg) ==
    /\ cpc = "idle"
    /\ Len(chat_history) < 2 * MaxTurns
    /\ user_input' = msg
    /\ IF Strip(msg) = <<>>
       THEN /\ shown' = BlankWarning
            /\ cpc' = "idle"
       ELSE /\ shown' = IF AnyKeyword(Lower(msg)) THEN CrisisLines ELSE <<>>
            /\ cpc' = "generating"
    /\ UNCHANGED chat_history
    /\ UNCHANGED <<now, timerVars, storeVars>>

\* The text-generation call returns gen; the reply is extracted and both
\* turns are appended to the history.
Generate(gen) ==
    /\ cpc = "generating"
    /\ chat_history' = chat_history
                         \o << <<"You", user_input>>,
                               <<"AI", ExtractReply(gen, user_input)>> >>
    /\ cpc' = "idle"
    /\ UNCHANGED <<user_input, shown>>
    /\ UNCHANGED <<now, timerVars, storeVars>>

\* The "Conversation" section: the last ten history entries.
Conversation ==
    SubSeq(chat_history,
           IF Len(chat_history) > 10 THEN Len(chat_history) - 9 ELSE 1,
           Len(chat_history))

ChatNext ==
    \/ \E msg \in Messages : Send(msg)
    \/ \E gen \in Generations(user_input) : Generate(gen)

-----------------------------------------------------------------------------
(* The Well-being Toolkit page: the one-minute breathing exercise.         *)

total_seconds == 60
PhaseSeconds  == 4
CycleSeconds  == 16
SleepSeconds  == 1

\* Bounds of the environment: how late a clock read or a wake-up may be, how
\* far and how often the wall clock is set back.
MaxLag     == 2
MaxSetBack == 2
MaxSkews   == 1
StartTimes == {0, 7}

\* int(x) for the quotient a / b, b > 0: truncation toward zero
TruncDiv(a, b) == IF a >= 0 THEN a \div b ELSE -((-a) \div b)

\* (mutant: the percentage restarts with every 16-second cycle)
ProgressOfCycle(e) == TruncDiv((e % CycleSeconds) * 100, total_seconds)
\* int((elapsed / total_seconds) * 100)
Progress(e) == TruncDiv(e * 100, total_seconds)

\* (mutant: phases of 3 seconds)
PhaseIndexThree(e) == ((e % CycleSeconds) \div 3) % 4
\* int((elapsed % 16) // 4); Python's % takes the sign of the divisor
PhaseIndex(e) == (e % CycleSeconds) \div PhaseSeconds

\* the if / elif chain on phase
PhaseLabel(p) ==
    IF p = 0 THEN "Inhale -- 4 seconds"
    ELSE IF p = 1 THEN "Hold -- 4 seconds"
    ELSE IF p = 2 THEN "Exhale -- 4 seconds"
    ELSE "Hold -- 4 seconds"

\* prog.progress(v) accepts an int v only in 0..100 and raises otherwise
ProgressAccepts(v) == v \in 0..100

\* "Start 1-minute breathing" clicked when the clock reads t: t0 =
\* time.time(), a progress bar at 0, an empty status placeholder, i = 0.
StartBreathing(t) ==
    /\ bpc = "idle"
    /\ now' = t
    /\ t0' = now'
    /\ pct' = 0
    /\ prog' = 0
    /\ status' = "empty"
    /\ i' = 0
    /\ bpc' = "loop"
    /\ UNCHANGED <<elapsed, phase, skews>>
    /\ UNCHANGED <<chatVars, storeVars>>

\* while time.time() - t0 < total_seconds; on exit prog.progress(100) and
\* status.success(...)
LoopTest ==
    /\ bpc = "loop"
    /\ IF now - t0 < total_seconds
       THEN /\ bpc' = "body"
            /\ UNCHANGED <<pct, prog, status>>
       ELSE /\ pct' = 100
            /\ prog' = 100
            /\ status' = "Great -- one minute done. How do you feel now?"
            /\ bpc' = "done"
    /\ UNCHANGED <<now, t0, i, elapsed, phase, skews>>
    /\ UNCHANGED <<chatVars, storeVars>>

\* (mutant: the phase is advanced by the sample counter, one step per four samples)
SampleByCounter(d) ==
    /\ bpc = "body"
    /\ now' = now + d
    /\ i' = i + 1
    /\ elapsed' = now' - t0
    /\ pct' = Progress(elapsed')
    /\ IF ProgressAccepts(pct')
       THEN /\ prog' = pct'
            /\ phase' = (i \div PhaseSeconds) % 4
            /\ status' = PhaseLabel(phase')
            /\ bpc' = "sleep"
       ELSE /\ bpc' = "error"
            /\ UNCHANGED <<prog, phase, status>>
    /\ UNCHANGED <<t0, skews>>
    /\ UNCHANGED <<chatVars, storeVars>>

\* The loop body up to the sleep, d seconds after the loop test: i += 1, the
\* sample's own clock read, the progress update (which raises on a value
\* outside 0..100), the phase and its label.
Sample(d) ==
    /\ bpc = "body"
    /\ now' = now + d
    /\ i' = i + 1
    /\ elapsed' = now' - t0
    /\ pct' = Progress(elapsed')
    /\ IF ProgressAccepts(pct')
       THEN /\ prog' = pct'
            /\ phase' = PhaseIndex(elapsed')
            /\ status' = PhaseLabel(phase')
            /\ bpc' = "sleep"
       ELSE /\ bpc' = "error"
            /\ UNCHANGED <<prog, phase, status>>
    /\ UNCHANGED <<t0, skews>>
    /\ UNCHANGED <<chatVars, storeVars>>

\* time.sleep(1): the loop resumes at least one second later
Sleep(d) ==
    /\ bpc = "sleep"
    /\ now' = now + SleepSeconds + d
    /\ bpc' = "loop"
    /\ UNCHANGED <<t0, i, elapsed, pct, prog, phase, status, skews>>
    /\ UNCHANGED <<chatVars, storeVars>>

\* The wall clock read by time.time() is set back by d seconds during a
\* session (time.time() is not monotonic).
ClockSetBack(d) ==
    /\ bpc \in {"loop", "body", "sleep"}
    /\ skews < MaxSkews
    /\ now' = now - d
    /\ skews' = skews + 1
    /\ UNCHANGED <<t0, i, elapsed, pct, prog, phase, status, bpc>>
    /\ UNCHANGED <<chatVars, storeVars>>

TimerSteps ==
    \/ \E t \in StartTimes : StartBreathing(t)
    \/ LoopTest
    \/ \E d \in 0..MaxLag : Sample(d)
    \/ \E d \in 0..MaxLag : Sleep(d)

TimerNext ==
    \/ TimerSteps
    \/ \E d \in 1..MaxSetBack : ClockSetBack(d)

-----------------------------------------------------------------------------
(* The SQLite store: tables moods and journals.                            *)

MaxSaves == 3
MaxLimit == 2
MaxStamp == 1

MoodLabels == {"Happy", "Sad"}
Notes      == {"exam"}
Titles     == {"Untitled", "Gratitude Note"}
Entries    == {"thanks"}
NoRows     == [query |-> "none", limit |-> 0, result |-> <<>>]

\* (mutant: ORDER BY ts DESC)
OrderByTsDesc(table, limit) ==
    LET RECURSIVE Pick(_, _)
        Pick(T, n) ==
            IF n = 0 \/ T = {} THEN <<>>
            ELSE LET r == CHOOSE r \in T : \A q \in T : q.ts <= r.ts
                 IN  <<r>> \o Pick(T \ {r}, n - 1)
    IN  Pick(table, limit)
\* SELECT ... ORDER BY id DESC LIMIT ?  (limit >= 0)
OrderByIdDesc(table, limit) ==
    LET RECURSIVE Pick(_, _)
        Pick(T, n) ==
            IF n = 0 \/ T = {} THEN <<>>
            ELSE LET r == CHOOSE r \in T : \A q \in T : q.id <= r.id
                 IN  <<r>> \o Pick(T \ {r}, n - 1)
    IN  Pick(table, limit)

\* save_mood(mood, note), called with the clock reading t
save_mood(mood, note, t) ==
    /\ Len(saved) < MaxSaves
    /\ now' = t
    /\ moods' = moods \cup
                  {[id |-> mood_seq + 1, mood |-> mood, note |-> note, ts |-> now']}
    /\ mood_seq' = mood_seq + 1
    /\ rows' = NoRows
    /\ saved' = Append(saved, [kind |-> "mood", a |-> mood, b |-> note, ts |-> now'])
    /\ UNCHANGED <<journals, journal_seq>>
    /\ UNCHANGED <<chatVars, timerVars>>

\* save_journal(title, entry), called with the clock reading t
save_journal(title, entry, t) ==
    /\ Len(saved) < MaxSaves
    /\ now' = t
    /\ journals' = journals \cup
                  {[id |-> journal_seq + 1, title |-> title, entry |-> entry, ts |-> now']}
    /\ journal_seq' = journal_seq + 1
    /\ rows' = NoRows
    /\ saved' = Append(saved, [kind |-> "journal", a |-> title, b |-> entry, ts |-> now'])
    /\ UNCHANGED <<moods, mood_seq>>
    /\ UNCHANGED <<chatVars, timerVars>>

\* get_mood_stats(limit): rows (mood, ts)
get_mood_stats(limit) ==
    /\ rows' = [query |-> "moods", limit |-> limit,
                result |-> LET sel == OrderByIdDesc(moods, limit)
                           IN  [j \in DOMAIN sel |-> <<sel[j].mood, sel[j].ts>>]]
    /\ UNCHANGED <<now, moods, journals, mood_seq, journal_seq, saved>>
    /\ UNCHANGED <<chatVars, timerVars>>

\* get_journals(limit): rows (id, title, ts)
get_journals(limit) ==
    /\ rows' = [query |-> "journals", limit |-> limit,
                result |-> LET sel == OrderByIdDesc(journals, limit)
                           IN  [j \in DOMAIN sel |-> <<sel[j].id, sel[j].title, sel[j].ts>>]]
    /\ UNCHANGED <<now, moods, journals, mood_seq, journal_seq, saved>>
    /\ UNCHANGED <<chatVars, timerVars>>

StoreNext ==
    \/ \E m \in MoodLabels, n \in Notes, t \in 0..MaxStamp : save_mood(m, n, t)
    \/ \E ti \in Titles, e \in Entries, t \in 0..MaxStamp : save_journal(ti, e, t)
    \/ \E n \in 0..MaxLimit : get_mood_stats(n)
    \/ \E n \in 0..MaxLimit : get_journals(n)

-----------------------------------------------------------------------------
(* Initial state and specifications.                                       *)

\* A fresh browser session on an empty database, after init_db().
Init ==
    /\ user_input = <<>>
    /\ chat_history = <<>>
    /\ shown = <<>>
    /\ cpc = "idle"
    /\ now = 0
    /\ t0 = 0
    /\ i = 0
    /\ elapsed = 0
    /\ pct = 0
    /\ prog = 0
    /\ phase = 0
    /\ status = "empty"
    /\ bpc = "idle"
    /\ skews = 0
    /\ moods = {}
    /\ journals = {}
    /\ mood_seq = 0
    /\ journal_seq = 0
    /\ rows = NoRows
    /\ saved = <<>>

\* One page at a time: each specification runs one page's handlers.
SpecChat      == Init /\ [][ChatNext]_vars
SpecTimer     == Init /\ [][TimerNext]_vars
SpecTimerMono == Init /\ [][TimerSteps]_vars
SpecStore     == Init /\ [][StoreNext]_vars

-----------------------------------------------------------------------------
(* Properties of the crisis check (AI Chatbot page).                       *)

\* The keyword list as the specification states it.
KeywordList ==
    << <<"s","u","i","c","i","d","e">>,
       <<"k","i","l","l"," ","m","y","s","e","l","f">>,
       <<"w","a","n","t"," ","t","o"," ","d","i","e">>,
       <<"d","i","e">>,
       <<"h","o","p","e","l","e","s","s">>,
       <<"w","o","r","t","h","l","e","s","s">>,
       <<"e","n","d"," ","m","y"," ","l","i","f","e">> >>
\* The helpline table as the specification states it.
HelplineTable ==
    { <<"India (NIMHANS)", "080-4611-0007">>,
      <<"iCall India", "+91 9152987821">>,
      <<"US (988)", "988">>,
      <<"International (if available)",
        "Contact local emergency services / national lifeline">> }

CasePairs ==
    { <<"A","a">>, <<"B","b">>, <<"C","c">>, <<"D","d">>, <<"E","e">>,
      <<"F","f">>, <<"G","g">>, <<"H","h">>, <<"I","i">>, <<"J","j">>,
      <<"K","k">>, <<"L","l">>, <<"M","m">>, <<"N","n">>, <<"O","o">>,
      <<"P","p">>, <<"Q","q">>, <<"R","r">>, <<"S","s">>, <<"T","t">>,
      <<"U","u">>, <<"V","v">>, <<"W","w">>, <<"X","x">>, <<"Y","y">>,
      <<"Z","z">> }
\* s with every upper-case letter replaced by its lower-case letter
LowerCased(s) ==
    [j \in DOMAIN s |->
        IF \E pr \in CasePairs : pr[1] = s[j]
        THEN (CHOOSE pr \in CasePairs : pr[1] = s[j])[2]
        ELSE s[j]]
\* k occurs in s at some offset, character by character
Occurs(k, s) ==
    \E a \in 1..Len(s) :
        \A j \in 1..Len(k) : a + j - 1 <= Len(s) /\ s[a + j - 1] = k[j]
\* the keywords occurring in the lower-cased message, in the list's order
MatchedIndexes(msg) ==
    LET low == LowerCased(msg)
    IN  {j \in DOMAIN KeywordList : Occurs(KeywordList[j], low)}
HasKeyword(msg) == MatchedIndexes(msg) # {}
NonBlank(msg) == \E j \in DOMAIN msg : msg[j] \notin {" ", "\n", "\t"}

BannerShown == \E j \in DOMAIN shown : shown[j].call = "error"
HelplineShown(h) ==
    \E j \in DOMAIN shown :
        /\ shown[j].call = "write"
        /\ Len(shown[j].text) = 3
        /\ shown[j].text[1] = h[1]
        /\ shown[j].text[3] = h[2]
\* some rendered line carries the string t
TermShown(t) ==
    \E j \in DOMAIN shown : \E m \in DOMAIN shown[j].text : shown[j].text[m] = t

\* C1: the message of the last Send is flagged (the banner is rendered) if
\* and only if some keyword of the list occurs as a contiguous substring of
\* the lower-cased message, with no word boundary; a blank message is never
\* flagged, a keyword in any letter case is.
C1_FlaggedIffKeyword ==
    /\ BannerShown <=> HasKeyword(user_input)
    /\ ~NonBlank(user_input) => ~BannerShown

\* C1 witness: "I DiEt" (mixed case, inside a longer word) has been flagged.
C1_Witness ==
    /\ cpc = "generating"
    /\ user_input = <<"I"," ","D","i","E","t">>
    /\ BannerShown

\* C2: a Send of a non-blank message renders the crisis check's outcome
\* (banner and all four helplines when flagged, none of them when not) and
\* only then reaches the text-generation call, whatever the flag; the call's
\* reply is then recorded after the user's turn, the rendering untouched.  A
\* blank message reaches no call.
C2_CheckThenGenerate ==
    [][ /\ cpc = "idle" =>
            /\ chat_history' = chat_history
            /\ IF NonBlank(user_input')
               THEN /\ cpc' = "generating"
                    /\ HasKeyword(user_input') =>
                         BannerShown' /\ \A h \in HelplineTable : HelplineShown(h)'
                    /\ ~HasKeyword(user_input') =>
                         ~BannerShown' /\ \A h \in HelplineTable : ~HelplineShown(h)'
               ELSE cpc' = "idle"
        /\ cpc = "generating" =>
            /\ cpc' = "idle"
            /\ shown' = shown
            /\ user_input' = user_input
            /\ Len(chat_history') = Len(chat_history) + 2
            /\ SubSeq(chat_history', 1, Len(chat_history)) = chat_history
            /\ chat_history'[Len(chat_history) + 1] = <<"You", user_input>>
            /\ chat_history'[Len(chat_history) + 2][1] = "AI"
      ]_vars

\* C2 witness: a flagged message, banner and helplines rendered, whose reply
\* has been recorded.
C2_Witness ==
    /\ cpc = "idle"
    /\ HasKeyword(user_input)
    /\ BannerShown
    /\ \A h \in HelplineTable : HelplineShown(h)
    /\ Len(chat_history) = 2
    /\ chat_history[1] = <<"You", user_input>>
    /\ chat_history[2][1] = "AI"

\* C3 (as stated): the check reports every keyword that occurs in the
\* lower-cased message: each such keyword appears in what the check renders.
C3_MatchedTermsReported ==
    cpc = "generating" =>
        \A j \in MatchedIndexes(user_input) : TermShown(KeywordNames[j])

\* C3 (amended): the check yields only the flag.  A flagged message gets the
\* same fixed output (the banner, the four helplines, the emergency line)
\* whichever keywords occur in it, and no keyword is listed in that output;
\* an unflagged message gets no output; "I want to die" is flagged.
C3_OnlyFlagReported ==
    cpc = "generating" =>
        /\ \A j \in DOMAIN KeywordNames : ~TermShown(KeywordNames[j])
        /\ IF HasKeyword(user_input)
           THEN /\ Len(shown) = 6
                /\ shown[1].call = "error"
                /\ \A h \in HelplineTable : HelplineShown(h)
                /\ shown[6] = [call |-> "write",
                               text |-> <<"If you are in immediate danger, contact emergency services in your country.">>]
           ELSE shown = <<>>
        /\ LowerCased(user_input) = <<"i"," ","w","a","n","t"," ","t","o"," ","d","i","e">>
             => {3, 4} \subseteq MatchedIndexes(user_input) /\ BannerShown

\* C3 witness: "I want to DIE", in which both "want to die" and "die" occur,
\* has been checked and got the fixed output.
C3_Witness ==
    /\ cpc = "generating"
    /\ user_input = <<"I"," ","w","a","n","t"," ","t","o"," ","D","I","E">>
    /\ MatchedIndexes(user_input) = {3, 4}
    /\ Len(shown) = 6

-----------------------------------------------------------------------------
(* Properties of the breathing exercise.                                   *)

\* a step that shows a sample (the progress value was accepted)
SampleShown == bpc = "body" /\ bpc' = "sleep"
\* the phase whose 4-second window of some 16-second cycle holds e
PhaseOfWindow(e) ==
    CHOOSE p \in 0..3 :
        \E c \in -2..8 : 16 * c + 4 * p <= e /\ e < 16 * c + 4 * p + 4
NextInCycle(p) == IF p = 3 THEN 0 ELSE p + 1

\* C4 (as stated): from one shown sample to the next, taken later, the phase
\* stays or moves to the next phase of the cycle, whatever the time between
\* the two samples.
C4_NoPhaseSkipped ==
    [][ (SampleShown /\ i > 0 /\ elapsed' > elapsed)
            => phase' \in {phase, NextInCycle(phase)} ]_vars

\* C4 (amended): from one shown sample to the next, taken at most 4 seconds
\* (one phase) later, the phase stays or moves to the next phase of the cycle.
C4_NoPhaseSkippedWithinFour ==
    [][ (SampleShown /\ i > 0 /\ elapsed' > elapsed /\ elapsed' - elapsed <= 4)
            => phase' \in {phase, NextInCycle(phase)} ]_vars

\* C4 witness: the second sample, at 4 s on a clock never set back (so the
\* first was at 0..3 s, in Inhale), shows Hold1.
C4_Witness ==
    /\ bpc = "sleep"
    /\ skews = 0
    /\ i = 2
    /\ elapsed = 4
    /\ phase = 1

\* C5 (as stated): every value passed to the progress display is
\* floor(min(elapsed, 60) / 60 * 100), an integer in 0..100.
C5_ProgressInRange ==
    /\ pct \in 0..100
    /\ bpc \in {"sleep", "error"} =>
         pct = ((IF elapsed < 60 THEN elapsed ELSE 60) * 100) \div 60

\* C6 (as stated): a sample whose clock read is earlier than the start
\* timestamp is shown as elapsed 0 (phase Inhale, progress 0), with no error.
C6_NegativeElapsedClamped ==
    (bpc \in {"sleep", "error"} /\ elapsed < 0) =>
        /\ bpc = "sleep"
        /\ phase = 0
        /\ status = "Inhale -- 4 seconds"
        /\ prog = 0

\* C7 (as stated, for a clock that only advances): the session never aborts,
\* no sample is taken once 60 s have elapsed, and on completion the progress
\* is 100 and the completion message is shown.
C7_SessionCompletes ==
    /\ bpc # "error"
    /\ bpc = "sleep" => elapsed < 60
    /\ bpc = "done" =>
         prog = 100 /\ status = "Great -- one minute done. How do you feel now?"

\* C8: within a session the progress shown never decreases from one sample
\* to a later-taken next sample, nor from the last sample to the final 100.
C8_ProgressMonotone ==
    [][ /\ (SampleShown /\ (i = 0 \/ elapsed' > elapsed)) => prog' >= prog
        /\ (bpc = "loop" /\ bpc' = "done") => (prog' = 100 /\ prog' >= prog)
      ]_vars

\* C8 witness: a second sample, later than the first, with progress above 0.
C8_Witness ==
    /\ bpc = "sleep"
    /\ skews = 0
    /\ i = 2
    /\ elapsed = 3
    /\ prog = 5

\* C9: a shown sample's phase is the 4-second window of the 16-second cycle
\* that holds the elapsed time (0..3 Inhale, 4..7 Hold1, 8..11 Exhale,
\* 12..15 Hold2, 16 Inhale again), whatever the number of samples taken.
C9_PhaseFromElapsed ==
    bpc = "sleep" =>
        /\ phase = PhaseOfWindow(elapsed)
        /\ status = <<"Inhale -- 4 seconds", "Hold -- 4 seconds",
                      "Exhale -- 4 seconds", "Hold -- 4 seconds">>[phase + 1]
        /\ elapsed = 0 => phase = 0
        /\ elapsed = 4 => phase = 1
        /\ elapsed = 8 => phase = 2
        /\ elapsed = 12 => phase = 3
        /\ elapsed = 16 => phase = 0

\* C9 witness: elapsed 16 s reached with only six samples shows Inhale again.
C9_Witness ==
    /\ bpc = "sleep"
    /\ elapsed = 16
    /\ i = 6
    /\ phase = 0

-----------------------------------------------------------------------------
(* Properties of the store.                                                *)

SavedOf(kind) == SelectSeq(saved, LAMBDA e : e.kind = kind)
Min(a, b) == IF a <= b THEN a ELSE b
\* the min(n, count) most recent saves of a kind, newest first
NewestFirst(kind, n) ==
    LET K == SavedOf(kind)
    IN  [j \in 1..Min(n, Len(K)) |-> [pos |-> Len(K) - j + 1, e |-> K[Len(K) - j + 1]]]

\* C10: every save adds exactly one entry to its own log and leaves the other
\* log and all earlier entries as they were; a query with limit n returns
\* exactly the min(n, count) most recently saved entries of its kind, from
\* the newest to the oldest.
C10_AppendOnlyNewestFirst ==
    /\ [][ /\ moods \subseteq moods'
           /\ journals \subseteq journals'
           /\ Len(saved') = Len(saved) + 1 =>
                IF saved'[Len(saved')].kind = "mood"
                THEN /\ Cardinality(moods') = Cardinality(moods) + 1
                     /\ journals' = journals
                ELSE /\ Cardinality(journals') = Cardinality(journals) + 1
                     /\ moods' = moods
           /\ saved' = saved => (moods' = moods /\ journals' = journals)
         ]_vars
    /\ [](rows.query = "moods" =>
            LET want == NewestFirst("mood", rows.limit)
            IN  /\ Len(rows.result) = Len(want)
                /\ \A j \in DOMAIN want :
                     rows.result[j] = <<want[j].e.a, want[j].e.ts>>)
    /\ [](rows.query = "journals" =>
            LET want == NewestFirst("journal", rows.limit)
            IN  /\ Len(rows.result) = Len(want)
                /\ \A j \in DOMAIN want :
                     /\ rows.result[j][2] = want[j].e.a
                     /\ rows.result[j][3] = want[j].e.ts
                     /\ rows.result[j][1] = want[j].pos)

\* C10 witness: three moods saved, the clock set back before the last one,
\* and a query with limit 2 has returned the last two, newest first.
C10_Witness ==
    /\ Len(SavedOf("mood")) = 3
    /\ SavedOf("mood")[2].ts > SavedOf("mood")[3].ts
    /\ SavedOf("mood")[2].a # SavedOf("mood")[3].a
    /\ rows.query = "moods"
    /\ rows.limit = 2
    /\ rows.result = << <<SavedOf("mood")[3].a, SavedOf("mood")[3].ts>>,
                        <<SavedOf("mood")[2].a, SavedOf("mood")[2].ts>> >>

====
